---- MODULE Spec2Model ----
(***************************************************************************)
(* Model of the two batch record pipelines of the repository:              *)
(*   CED  (src/dataCED.py)  CSV rows -> INSERT statements in one           *)
(*        transaction, result artifacts written locally, then uploaded.    *)
(*   XRT  (src/dataXRT.py)  CSV rows -> one SOAP call per row, result     *)
(*        artifacts staged in the local pending directory, uploaded and    *)
(*        moved.                                                           *)
(* A file is a sequence of lines, a line a sequence of cells, a file name  *)
(* or object key a sequence of one-character strings (so that the name     *)
(* derivations of the code can be computed as the code computes them).     *)
(* Directories and remote prefixes are functions from names to files.      *)
(***************************************************************************)
EXTENDS Integers, Sequences, FiniteSets, TLC

\* ------------------------------------------------------------------ bounds
\* objects under the remote pending prefix at the start
MaxFiles == 2
\* environment failures (store, database connection, transport) per behaviour
MaxFaults == 1
\* pipeline runs per behaviour
MaxRuns == 2
\* characters of a file name whose result names are derived on their own
MaxNameLen == 5
\* characters of a value of a record written and read back on its own
MaxValueLen == 2
\* words of a raw message
MaxWords == 2
\* fields of a line of an input file read on its own
MaxFields == 2

\* ------------------------------------------------------------- file names
DOT == "."
SLASH == "/"

\* the suffixes of the result artifacts ('_ok', '_error')
OK_SUFFIX == <<"_", "o", "k">>
ERROR_SUFFIX == <<"_", "e", "r", "r", "o", "r">>

Suffix(kind) == IF kind = "ok" THEN OK_SUFFIX ELSE ERROR_SUFFIX

\* str.replace('.', suffix + '.'): every dot of the name is replaced
RECURSIVE ReplaceDots(_, _)
ReplaceDots(name, suffix) ==
    IF name = <<>> THEN <<>>
    ELSE IF Head(name) = DOT
         THEN suffix \o <<DOT>> \o ReplaceDots(Tail(name), suffix)
         ELSE <<Head(name)>> \o ReplaceDots(Tail(name), suffix)

\* CED: original_filename.replace('.', '_ok.') / replace('.', '_error.')
CED_ResultName(name, kind) == ReplaceDots(name, Suffix(kind))

\* position of the last occurrence of c in s, 0 when there is none
LastIndexOf(s, c) ==
    LET hits == {i \in 1..Len(s) : s[i] = c}
    IN  IF hits = {} THEN 0 ELSE CHOOSE i \in hits : \A j \in hits : j <= i

\* XRT: name_parts = original_filename.rsplit('.', 1)
XRT_ResultName(name, kind) ==
    LET d == LastIndexOf(name, DOT)
    IN  IF d = 0 THEN name \o Suffix(kind)
        ELSE SubSeq(name, 1, d - 1) \o Suffix(kind) \o <<DOT>>
             \o SubSeq(name, d + 1, Len(name))

\* Path(s3_key).name: the part after the last slash
PathName(key) == SubSeq(key, LastIndexOf(key, SLASH) + 1, Len(key))

\* ----------------------------------------------------------------- inputs
\* Column lists of the CEDE_INTERFACE table, cut down to their first three
\* columns (PID, STATUS, IMPORT_TS): the display order and the insert order
\* differ, as in the source.
COLUMNS_TO_USE == <<"PID", "STATUS", "IMPORT_TS">>
INSERT_COLUMN_ORDER == <<"IMPORT_TS", "PID", "STATUS">>

Range(s) == {s[i] : i \in 1..Len(s)}

\* object keys relative to the pending prefix, in the order S3 lists them
\* (UTF-8 binary order): a.c, a_error.c, b, x/a.c
KeyOrder ==
    << <<"a", ".", "c">>,
       <<"a", "_", "e", "r", "r", "o", "r", ".", "c">>,
       <<"b">>,
       <<"x", "/", "a", ".", "c">> >>

Keys == Range(KeyOrder)

\* file contents of CED: complete files with two, one and no data row, a
\* complete file whose columns are in another order than COLUMNS_TO_USE and
\* that has one column more, a file whose only line lacks STATUS and
\* IMPORT_TS; of
\* XRT: a file of two lines; of both: an empty file (no line at all)
GoodFile == << <<"PID", "STATUS", "IMPORT_TS">>, <<"p1", "s1", "t1">>, <<"p2", "s2", "t2">> >>
OneRowFile == << <<"PID", "STATUS", "IMPORT_TS">>, <<"p3", "s3", "t3">> >>
ReorderedFile == << <<"STATUS", "PID", "IMPORT_TS", "NOTE">>, <<"s4", "p4", "t4", "n4">> >>
HeaderOnlyFile == << <<"PID", "STATUS", "IMPORT_TS">> >>
BadHeaderFile == << <<"PID">> >>
RatesFile == << <<"CURRENCY", "RATE">>, <<"USD", "1.1">> >>
EmptyFile == <<>>

Contents == {GoodFile, OneRowFile, ReorderedFile, HeaderOnlyFile, BadHeaderFile, RatesFile, EmptyFile}

\* the contents an object may have when a behaviour of pipeline p starts
ContentsOf(p, key) ==
    IF p = "CED"
    THEN CASE key = KeyOrder[1] -> {GoodFile, BadHeaderFile, EmptyFile}
           [] key = KeyOrder[2] -> {OneRowFile, HeaderOnlyFile}
           [] key = KeyOrder[3] -> {OneRowFile, ReorderedFile, EmptyFile}
           [] OTHER -> {OneRowFile, EmptyFile}
    ELSE CASE key = KeyOrder[2] -> {RatesFile}
           [] key = KeyOrder[4] -> {RatesFile}
           [] OTHER -> {RatesFile, EmptyFile}


\* ------------------------------------------------------------------ state
VARIABLES
    pipeline,             \* "CED" or "XRT": which program runs
    s3Pending,            \* remote pending prefix: key -> file
    s3Processed,          \* remote processed prefix: name -> file
    s3Error,              \* remote error prefix: name -> file
    localPending,         \* local pending directory: name -> file
    localProcessed,       \* local processed directory: name -> file
    localError,           \* local error directory: name -> file
    madeDirs,             \* which of the local processed and error
                          \* directories exist
    db,                   \* CED: rows durably persisted in CEDE_INTERFACE
    txn,                  \* CED: rows inserted in the open transaction
    conn,                 \* CED: "none", "open" or "lost"
    pc,                   \* position of the run
    run,                  \* number of runs started
    toDownload,           \* keys listed and not yet downloaded
    files,                \* downloaded_files: <<[local, key]>>
    fidx,                 \* index of the for loop over downloaded_files
    batch,                \* the parsed dataframe: [header, rows]
    rowi,                 \* index of the next row of iterrows()
    successful_records,   \* CED successful_records / XRT success_records
    failed_records,       \* CED failed_records / XRT error_records
    result,               \* XRT ProcessingResult counts / CED logged counts
    it,                   \* history of the iteration in progress
    runLog,               \* history of the finished iterations of this run
    runResult,            \* how the last run ended
    interrupted,          \* keys whose processing was cut off after the
                          \* uploads, before the delete of the original
    faults,               \* environment failures so far
    fn,                   \* the function applied on its own, "none" before
    arg,                  \* its argument
    val                   \* its result

remote == <<s3Pending, s3Processed, s3Error>>
localDirs == <<localPending, localProcessed, localError, madeDirs>>
sink == <<db, txn, conn>>
ctl == <<pc, run, toDownload, files, fidx>>
work == <<batch, rowi, successful_records, failed_records, result>>
hist == <<it, runLog, runResult, interrupted>>
pure == <<fn, arg, val>>
vars == <<pipeline, remote, localDirs, sink, ctl, work, hist, faults, pure>>

None == "None"

NoBatch == [header |-> <<>>, rows |-> <<>>]

\* ProcessingResult(): success_count = 0, error_count = 0
ProcessingResult == [success_count |-> 0, error_count |-> 0]

\* what is recorded about one iteration of the loop over downloaded_files
NoIter ==
    [key |-> <<>>, local |-> <<>>, original |-> <<>>, read |-> <<>>,
     total |-> -1, dbLen |-> 0,
     outcomes |-> <<>>, submitted |-> <<>>, connects |-> 0, commits |-> 0, commitAt |-> 0,
     committed |-> <<>>, produced |-> {}, uploaded |-> {},
     error |-> "none", at |-> "none", missing |-> {}, named |-> {},
     deleted |-> FALSE, resumed |-> FALSE, faults0 |-> 0, faulted |-> FALSE,
     returned |-> "none"]

Without(f, k) == [x \in DOMAIN f \ {k} |-> f[x]]

Put(f, k, v) == [x \in DOMAIN f \cup {k} |-> IF x = k THEN v ELSE f[x]]

\* the keys under the pending prefix, as list_objects_v2 returns them
Listing(pending) == SelectSeq(KeyOrder, LAMBDA k : k \in DOMAIN pending)

\* local_processed_dir and local_error_dir
TerminalDirs == {"processed", "error"}

\* the program before its first run, on a machine where the directories
\* dirs exist
Start(dirs) ==
    /\ pipeline \in {"CED", "XRT"}
    /\ \E K \in SUBSET Keys :
          /\ Cardinality(K) <= MaxFiles
          /\ s3Pending \in {f \in [K -> Contents] :
                               \A k \in K : f[k] \in ContentsOf(pipeline, k)}
    /\ s3Processed = <<>>
    /\ s3Error = <<>>
    /\ localPending = <<>>
    /\ localProcessed = <<>>
    /\ localError = <<>>
    /\ madeDirs = dirs
    /\ db = <<>>
    /\ txn = <<>>
    /\ conn = "none"
    /\ pc = "idle"
    /\ run = 0
    /\ toDownload = <<>>
    /\ files = <<>>
    /\ fidx = 0
    /\ batch = NoBatch
    /\ rowi = 0
    /\ successful_records = <<>>
    /\ failed_records = <<>>
    /\ result = ProcessingResult
    /\ it = NoIter
    /\ runLog = <<>>
    /\ runResult = "none"
    /\ interrupted = {}
    /\ faults = 0
    /\ fn = "none"
    /\ arg = <<>>
    /\ val = None

\* an installation whose local processed and error directories exist
Init == Start(TerminalDirs)

\* a start where one or both of the local processed and error directories
\* do not exist
InitFresh == \E dirs \in (SUBSET TerminalDirs) \ {TerminalDirs} : Start(dirs)

\* the per-iteration variables, as they are when no file is being processed
ResetWork ==
    /\ batch' = NoBatch
    /\ rowi' = 0
    /\ successful_records' = <<>>
    /\ failed_records' = <<>>
    /\ result' = ProcessingResult
    /\ conn' = "none"
    /\ txn' = <<>>
    /\ it' = NoIter

\* ------------------------------------------------------------- run set-up
\* main / run_exchange_rate_pipeline: the listing succeeds
StartRun ==
    /\ pc = "idle"
    /\ run < MaxRuns
    /\ run' = run + 1
    /\ runLog' = <<>>
    /\ files' = <<>>
    /\ fidx' = 0
    /\ toDownload' = Listing(s3Pending)
    /\ IF Listing(s3Pending) = <<>>
       THEN pc' = "idle" /\ runResult' = "nofiles"
       ELSE pc' = "download" /\ runResult' = "running"
    /\ UNCHANGED <<pipeline, pure, interrupted, remote, localDirs, sink, work, it, faults>>

\* how a run ends when an exception reaches the outer handler:
\* CED main logs it and returns, XRT logs it and raises it again
RunAborted == IF pipeline = "CED" THEN "error" ELSE "raised"

\* the listing fails (ClientError from list_objects_v2)
ListFails ==
    /\ pc = "idle"
    /\ run < MaxRuns
    /\ faults < MaxFaults
    /\ faults' = faults + 1
    /\ run' = run + 1
    /\ runLog' = <<>>
    /\ files' = <<>>
    /\ fidx' = 0
    /\ toDownload' = <<>>
    /\ runResult' = RunAborted
    /\ UNCHANGED <<pipeline, pure, interrupted, remote, localDirs, sink, work, it, pc>>

\* the local file an object is downloaded to:
\* CED local_pending_dir / Path(s3_key).name, XRT local_dir / filename
LocalName(key) == IF pipeline = "CED" THEN PathName(key) ELSE key

\* the local pending directory is flat: a name with a slash names a file in
\* a directory that does not exist
Writable(name) == LastIndexOf(name, SLASH) = 0

\* download_all_pending_files / the download loop: one object is downloaded
Download ==
    /\ pc = "download"
    /\ toDownload # <<>>
    /\ LET key == Head(toDownload)
           local == LocalName(key)
       IN  /\ Writable(local)
           /\ localPending' = Put(localPending, local, s3Pending[key])
           /\ files' = Append(files, [local |-> local, key |-> key])
    /\ toDownload' = Tail(toDownload)
    /\ IF Tail(toDownload) = <<>>
       THEN pc' = "process" /\ fidx' = 1
       ELSE pc' = "download" /\ fidx' = fidx
    /\ UNCHANGED <<pipeline, pure, interrupted, remote, localProcessed, localError, madeDirs, sink, run,
                   work, hist, faults>>

\* a download fails: the exception leaves the download loop and the run ends
DownloadFails ==
    /\ pc = "download"
    /\ toDownload # <<>>
    /\ \/ ~Writable(LocalName(Head(toDownload))) /\ faults' = faults
       \/ faults < MaxFaults /\ faults' = faults + 1
    /\ pc' = "idle"
    /\ runResult' = RunAborted
    /\ UNCHANGED <<pipeline, pure, interrupted, remote, localDirs, sink, run, toDownload, files,
                   fidx, work, it, runLog>>

\* the for loop over downloaded_files is exhausted
FinishRun ==
    /\ pc = "process"
    /\ fidx > Len(files)
    /\ pc' = "idle"
    /\ runResult' = "finished"
    /\ UNCHANGED <<pipeline, pure, interrupted, remote, localDirs, sink, run, toDownload, files,
                   fidx, work, it, runLog, faults>>

\* ------------------------------------------------------------ CED pipeline
\* the exception classes main handles per file (each handler ends in continue)
CED_HANDLED == {"ValueError", "pyodbc.Error", "ClientError", "OSError"}

\* what an upload through the SDK can raise: a ClientError, or the SDK's own
\* S3UploadFailedError, which is not a ClientError
UPLOAD_ERRORS == {"ClientError", "S3UploadFailedError"}

\* what delete_object can raise: a ClientError (the service refuses), or an
\* EndpointConnectionError (the service is not reached), not a ClientError
DELETE_ERRORS == {"ClientError", "EndpointConnectionError"}

\* an exception of class cls leaves the body of the for loop of main at
\* position at: a handled class is logged and the loop continues, any other
\* class reaches the outer handler, which ends the run
CED_Raise(itx, cls, at) ==
    /\ runLog' = Append(runLog, [itx EXCEPT !.error = cls, !.at = at,
                                            !.faulted = faults' > itx.faults0])
    /\ ResetWork
    /\ IF cls \in CED_HANDLED
       THEN pc' = "process" /\ fidx' = fidx + 1 /\ runResult' = runResult
       ELSE pc' = "idle" /\ fidx' = fidx /\ runResult' = "error"
    /\ interrupted' = IF at = "delete" THEN interrupted \cup {itx.key} ELSE interrupted
    /\ UNCHANGED <<pipeline, pure, run, toDownload, files, db>>

\* validate_csv_columns: the required columns the header lacks
MissingColumns(header, required_columns) == Range(required_columns) \ Range(header)

\* only one of the missing columns is named
NamedColumnsFirstOnly(missing_columns) ==
    IF missing_columns = {} THEN {} ELSE {CHOOSE c \in missing_columns : TRUE}

\* the columns the ValueError of validate_csv_columns names: sorted(missing)
NamedColumns(missing_columns) == missing_columns

IndexOf(s, c) == CHOOSE i \in 1..Len(s) : s[i] = c

\* build_insert_statement: the columns named by the statement and one
\* placeholder for each of them
build_insert_statement ==
    [columns |-> INSERT_COLUMN_ORDER,
     placeholders |-> [i \in 1..Len(INSERT_COLUMN_ORDER) |-> "?"]]

\* the values are taken in the order of the columns of the file
InsertDataByPosition(header, row) ==
    [i \in 1..Len(INSERT_COLUMN_ORDER) |-> row[i]]

\* data = tuple(row[col] for col in INSERT_COLUMN_ORDER)
InsertData(header, row) ==
    [i \in 1..Len(INSERT_COLUMN_ORDER) |-> row[IndexOf(header, INSERT_COLUMN_ORDER[i])]]

\* process_file up to the connection: read the file, validate its header
CED_ProcessFile ==
    /\ pipeline = "CED"
    /\ pc = "process"
    /\ fidx <= Len(files)
    /\ UNCHANGED <<remote, localDirs, faults>>
    /\ LET f == files[fidx]
           present == f.local \in DOMAIN localPending
           file == IF present THEN localPending[f.local] ELSE <<>>
           it0 == [NoIter EXCEPT !.key = f.key, !.local = f.local,
                                 !.original = s3Pending[f.key],
                                 !.read = file, !.dbLen = Len(db),
                                 !.resumed = f.key \in interrupted,
                                 !.faults0 = faults]
           missing == MissingColumns(Head(file), INSERT_COLUMN_ORDER)
       IN  IF ~present
           THEN \* open() in detect_file_encoding: FileNotFoundError
                CED_Raise(it0, "OSError", "read")
           ELSE IF file = <<>>
           THEN \* pd.read_csv: EmptyDataError, a ValueError
                CED_Raise(it0, "ValueError", "read")
           ELSE IF missing # {}
           THEN CED_Raise([it0 EXCEPT !.missing = missing,
                                      !.named = NamedColumns(missing)],
                          "ValueError", "validate")
           ELSE /\ batch' = [header |-> Head(file), rows |-> Tail(file)]
                /\ it' = [it0 EXCEPT !.total = Len(Tail(file))]
                /\ pc' = "connect"
                /\ UNCHANGED <<pipeline, pure, interrupted, sink, run, toDownload, files, fidx,
                               rowi, successful_records, failed_records,
                               result, runLog, runResult>>

\* pyodbc.connect succeeds
CED_Connect ==
    /\ pipeline = "CED"
    /\ pc = "connect"
    /\ conn' = "open"
    /\ txn' = <<>>
    /\ rowi' = 1
    /\ it' = [it EXCEPT !.connects = @ + 1]
    /\ pc' = "insert"
    /\ UNCHANGED <<pipeline, pure, interrupted, remote, localDirs, db, run, toDownload, files,
                   fidx, batch, successful_records, failed_records, result,
                   runLog, runResult, faults>>

\* pyodbc.connect raises: logged as a connection error and raised again
CED_ConnectFails ==
    /\ pipeline = "CED"
    /\ pc = "connect"
    /\ faults < MaxFaults
    /\ faults' = faults + 1
    /\ CED_Raise([it EXCEPT !.connects = @ + 1], "pyodbc.Error", "connect")
    /\ UNCHANGED <<remote, localDirs>>

\* what cursor.execute does with one row: "ok", "reject" (the statement
\* fails, e.g. a constraint violation) or "lost" (the connection is lost)
StatementOutcomes ==
    IF conn = "lost" THEN {"lost"}
    ELSE {"ok", "reject"} \cup (IF faults < MaxFaults THEN {"lost"} ELSE {})

\* str(error) of the pyodbc.Error of a failed statement
DriverMessage(outcome) ==
    IF outcome = "reject" THEN "constraint violation" ELSE "communication link failure"

\* the pyodbc.Error of a failed statement is not caught
execute_insertUncaught(outcome) ==
    IF outcome = "ok" THEN [raised |-> FALSE, error |-> None]
    ELSE [raised |-> TRUE, error |-> None]

\* execute_insert: None on success, the error message on any pyodbc.Error;
\* raised tells whether the exception leaves execute_insert
execute_insert(outcome) ==
    IF outcome = "ok" THEN [raised |-> FALSE, error |-> None]
    ELSE [raised |-> FALSE, error |-> DriverMessage(outcome)]

\* a failed row is put in both lists
CED_PlaceInBoth(groups, i, row, error) ==
    IF error # None
    THEN [groups EXCEPT !.failed = Append(@, [row |-> i, cells |-> Append(row, error)]),
                        !.ok = Append(@, [row |-> i, cells |-> row])]
    ELSE [groups EXCEPT !.ok = Append(@, [row |-> i, cells |-> row])]

\* the branch on error of process_file: the row goes to failed_records with
\* the message appended, or to successful_records
CED_Place(groups, i, row, error) ==
    IF error # None
    THEN [groups EXCEPT !.failed = Append(@, [row |-> i, cells |-> Append(row, error)])]
    ELSE [groups EXCEPT !.ok = Append(@, [row |-> i, cells |-> row])]

\* one iteration of the loop over dataframe.iterrows()
CED_ExecuteInsert ==
    /\ pipeline = "CED"
    /\ pc = "insert"
    /\ rowi <= Len(batch.rows)
    /\ \E outcome \in StatementOutcomes :
          LET row == batch.rows[rowi]
              r == execute_insert(outcome)
              itx == [it EXCEPT !.outcomes = Append(@, outcome),
                                !.submitted = Append(@, InsertData(batch.header, row))]
              groups == CED_Place([ok |-> successful_records, failed |-> failed_records],
                                  rowi, row, r.error)
          IN  /\ faults' = IF outcome = "lost" /\ conn = "open" THEN faults + 1 ELSE faults
              /\ IF r.raised
                 THEN CED_Raise(itx, "pyodbc.Error", "insert")
                 ELSE /\ txn' = IF outcome = "ok"
                                THEN Append(txn, InsertData(batch.header, row))
                                ELSE IF outcome = "lost" THEN <<>> ELSE txn
                      /\ conn' = IF outcome = "lost" THEN "lost" ELSE conn
                      /\ successful_records' = groups.ok
                      /\ failed_records' = groups.failed
                      /\ rowi' = rowi + 1
                      /\ it' = itx
                      /\ UNCHANGED <<pipeline, pure, interrupted, db, pc, run, toDownload, files,
                                     fidx, batch, result, runLog, runResult>>
    /\ UNCHANGED <<remote, localDirs>>

\* the commit is left out: the transaction is rolled back when the
\* connection is closed
CED_CommitDropped ==
    /\ pipeline = "CED"
    /\ pc = "insert"
    /\ rowi > Len(batch.rows)
    /\ conn = "open"
    /\ txn' = <<>>
    /\ conn' = "none"
    /\ pc' = "write_error"
    /\ UNCHANGED <<pipeline, pure, interrupted, remote, localDirs, db, run, toDownload, files,
                   fidx, batch, rowi, successful_records, failed_records,
                   result, hist, faults>>

\* connection.commit() after the loop, on a connection that is still open
CED_Commit ==
    /\ pipeline = "CED"
    /\ pc = "insert"
    /\ rowi > Len(batch.rows)
    /\ conn = "open"
    /\ db' = db \o txn
    /\ txn' = <<>>
    /\ conn' = "none"
    /\ it' = [it EXCEPT !.commits = @ + 1, !.commitAt = rowi - 1, !.committed = txn]
    /\ pc' = "write_error"
    /\ UNCHANGED <<pipeline, pure, interrupted, remote, localDirs, run, toDownload, files, fidx,
                   batch, rowi, successful_records, failed_records, result,
                   runLog, runResult, faults>>

\* connection.commit() raises: always on a lost connection, and when the
\* connection fails at the commit; the transaction is not committed
CED_CommitFails ==
    /\ pipeline = "CED"
    /\ pc = "insert"
    /\ rowi > Len(batch.rows)
    /\ \/ conn = "lost" /\ faults' = faults
       \/ conn = "open" /\ faults < MaxFaults /\ faults' = faults + 1
    /\ CED_Raise([it EXCEPT !.commits = @ + 1, !.commitAt = rowi - 1],
                 "pyodbc.Error", "commit")
    /\ UNCHANGED <<remote, localDirs>>

\* the longest record of a list
Width(records) ==
    IF records = <<>> THEN 0
    ELSE LET k == CHOOSE k \in 1..Len(records) :
                      \A l \in 1..Len(records) :
                          Len(records[l].cells) <= Len(records[k].cells)
         IN  Len(records[k].cells)

\* pd.DataFrame(records): a shorter record is filled up with None at its end
Padded(cells, width) ==
    [j \in 1..width |-> IF j <= Len(cells) THEN cells[j] ELSE None]

\* the lines to_csv writes for a list of records
Lines(records) ==
    [i \in 1..Len(records) |-> Padded(records[i].cells, Width(records))]

\* records.insert(0, header): the header becomes the first record of the list
WithHeader(records, header) == <<[row |-> 0, cells |-> header]>> \o records

\* the header is counted as a record
RecordCountWithHeader(records) == Len(records)

\* record_count = len(records) - 1  (the header is excluded)
RecordCount(records) == Len(records) - 1

\* _write_error_file: nothing for an empty list, else header + rows
CED_WriteErrorFile ==
    /\ pipeline = "CED"
    /\ pc = "write_error"
    /\ failed_records # <<>> => "error" \in madeDirs
    /\ IF failed_records = <<>>
       THEN UNCHANGED <<failed_records, localError, result, it>>
       ELSE LET records == WithHeader(failed_records, Append(COLUMNS_TO_USE, "ERROR"))
            IN  /\ failed_records' = records
                /\ localError' = Put(localError, CED_ResultName(it.local, "error"),
                                     Lines(records))
                /\ result' = [result EXCEPT !.error_count = RecordCount(records)]
                /\ it' = [it EXCEPT !.produced = @ \cup {"error"}]
    /\ pc' = "write_success"
    /\ UNCHANGED <<pipeline, pure, interrupted, remote, localPending, localProcessed, madeDirs, sink,
                   run,
                   toDownload, files, fidx, batch, rowi, successful_records,
                   runLog, runResult, faults>>

\* the value is computed with the header left out of the count
ReturnValueWithoutHeader(records) ==
    IF Len(records) - 1 = 0 THEN "True" ELSE "False"

\* return len(failed_records) == 0, computed on the list as
\* _write_error_file left it
ReturnValue(records) ==
    IF Len(records) = 0 THEN "True" ELSE "False"

\* the success file is written for an empty list too: a header and no row
CED_WriteSuccessFileAlways ==
    /\ pipeline = "CED"
    /\ pc = "write_success"
    /\ "processed" \in madeDirs
    /\ LET records == WithHeader(successful_records, COLUMNS_TO_USE)
       IN  /\ successful_records' = records
           /\ localProcessed' = Put(localProcessed, CED_ResultName(it.local, "ok"),
                                    Lines(records))
           /\ result' = [result EXCEPT !.success_count = RecordCount(records)]
           /\ it' = [it EXCEPT !.produced = @ \cup {"ok"},
                               !.returned = ReturnValue(failed_records)]
    /\ pc' = "upload_ok"
    /\ UNCHANGED <<pipeline, pure, interrupted, remote, localPending, localError, madeDirs, sink,
                   run, toDownload, files, fidx, batch, rowi, failed_records,
                   runLog, runResult, faults>>

\* _write_success_file: nothing for an empty list, else header + rows;
\* process_file then returns
CED_WriteSuccessFile ==
    /\ pipeline = "CED"
    /\ pc = "write_success"
    /\ successful_records # <<>> => "processed" \in madeDirs
    /\ IF successful_records = <<>>
       THEN /\ UNCHANGED <<successful_records, localProcessed, result>>
            /\ it' = [it EXCEPT !.returned = ReturnValue(failed_records)]
       ELSE LET records == WithHeader(successful_records, COLUMNS_TO_USE)
            IN  /\ successful_records' = records
                /\ localProcessed' = Put(localProcessed, CED_ResultName(it.local, "ok"),
                                         Lines(records))
                /\ result' = [result EXCEPT !.success_count = RecordCount(records)]
                /\ it' = [it EXCEPT !.produced = @ \cup {"ok"},
                                    !.returned = ReturnValue(failed_records)]
    /\ pc' = "upload_ok"
    /\ UNCHANGED <<pipeline, pure, interrupted, remote, localPending, localError, madeDirs, sink,
                   run,
                   toDownload, files, fidx, batch, rowi, failed_records,
                   runLog, runResult, faults>>

\* to_csv raises an OSError while a non-empty group is written: its
\* directory does not exist (nothing makes it), or the write itself fails
CED_WriteFails ==
    /\ pipeline = "CED"
    /\ \/ pc = "write_error" /\ failed_records # <<>>
       \/ pc = "write_success" /\ successful_records # <<>>
    /\ IF (IF pc = "write_error" THEN "error" ELSE "processed") \in madeDirs
       THEN faults < MaxFaults /\ faults' = faults + 1
       ELSE faults' = faults
    /\ CED_Raise(it, "OSError", pc)
    /\ UNCHANGED <<remote, localDirs>>

\* main, step 3: the success file is uploaded if it exists
CED_UploadSuccess ==
    /\ pipeline = "CED"
    /\ pc = "upload_ok"
    /\ LET name == CED_ResultName(it.local, "ok")
       IN  IF name \in DOMAIN localProcessed
           THEN /\ s3Processed' = Put(s3Processed, name, localProcessed[name])
                /\ it' = [it EXCEPT !.uploaded = @ \cup {"ok"}]
           ELSE UNCHANGED <<s3Processed, it>>
    /\ pc' = "upload_error"
    /\ UNCHANGED <<pipeline, pure, interrupted, s3Pending, s3Error, localDirs, sink, run,
                   toDownload, files, fidx, work, runLog, runResult, faults>>

\* main, step 3: the error file is uploaded if it exists
CED_UploadError ==
    /\ pipeline = "CED"
    /\ pc = "upload_error"
    /\ LET name == CED_ResultName(it.local, "error")
       IN  IF name \in DOMAIN localError
           THEN /\ s3Error' = Put(s3Error, name, localError[name])
                /\ it' = [it EXCEPT !.uploaded = @ \cup {"error"}]
           ELSE UNCHANGED <<s3Error, it>>
    /\ pc' = "delete"
    /\ UNCHANGED <<pipeline, pure, interrupted, s3Pending, s3Processed, localDirs, sink, run,
                   toDownload, files, fidx, work, runLog, runResult, faults>>

\* the upload failure is swallowed and main goes on to the next step
CED_UploadFailsIgnored ==
    /\ pipeline = "CED"
    /\ \/ /\ pc = "upload_ok"
          /\ CED_ResultName(it.local, "ok") \in DOMAIN localProcessed
       \/ /\ pc = "upload_error"
          /\ CED_ResultName(it.local, "error") \in DOMAIN localError
    /\ faults < MaxFaults
    /\ faults' = faults + 1
    /\ pc' = IF pc = "upload_ok" THEN "upload_error" ELSE "delete"
    /\ UNCHANGED <<pipeline, pure, interrupted, remote, localDirs, sink, run, toDownload, files,
                   fidx, work, hist>>

\* an upload of an existing result file raises
CED_UploadFails ==
    /\ pipeline = "CED"
    /\ \/ /\ pc = "upload_ok"
          /\ CED_ResultName(it.local, "ok") \in DOMAIN localProcessed
       \/ /\ pc = "upload_error"
          /\ CED_ResultName(it.local, "error") \in DOMAIN localError
    /\ faults < MaxFaults
    /\ faults' = faults + 1
    /\ \E cls \in UPLOAD_ERRORS : CED_Raise(it, cls, pc)
    /\ UNCHANGED <<remote, localDirs>>

\* the object deleted is named after the local file, not by its key
CED_DeleteRemoteByName ==
    /\ pipeline = "CED"
    /\ pc = "delete"
    /\ s3Pending' = Without(s3Pending, it.local)
    /\ it' = [it EXCEPT !.deleted = TRUE]
    /\ interrupted' = interrupted \ {it.key}
    /\ pc' = "unlink"
    /\ UNCHANGED <<pipeline, pure, s3Processed, s3Error, localDirs, sink, run,
                   toDownload, files, fidx, work, runLog, runResult, faults>>

\* main, step 4: the original object is deleted from the pending prefix
CED_DeleteRemote ==
    /\ pipeline = "CED"
    /\ pc = "delete"
    /\ s3Pending' = Without(s3Pending, it.key)
    /\ it' = [it EXCEPT !.deleted = TRUE]
    /\ interrupted' = interrupted \ {it.key}
    /\ pc' = "unlink"
    /\ UNCHANGED <<pipeline, pure, s3Processed, s3Error, localDirs, sink, run,
                   toDownload, files, fidx, work, runLog, runResult, faults>>

\* delete_object raises
CED_DeleteFails ==
    /\ pipeline = "CED"
    /\ pc = "delete"
    /\ faults < MaxFaults
    /\ faults' = faults + 1
    /\ \E cls \in DELETE_ERRORS : CED_Raise(it, cls, "delete")
    /\ UNCHANGED <<remote, localDirs>>

\* local_path.unlink(), then the end of the loop body
CED_Unlink ==
    /\ pipeline = "CED"
    /\ pc = "unlink"
    /\ UNCHANGED <<remote, localProcessed, localError, madeDirs, faults>>
    /\ IF it.local \in DOMAIN localPending
       THEN /\ localPending' = Without(localPending, it.local)
            /\ runLog' = Append(runLog, it)
            /\ ResetWork
            /\ pc' = "process"
            /\ fidx' = fidx + 1
            /\ UNCHANGED <<pipeline, pure, interrupted, run, toDownload, files, db, runResult>>
       ELSE /\ CED_Raise(it, "OSError", "unlink")
            /\ UNCHANGED localPending

\* local_path.unlink() raises an OSError (the file cannot be removed)
CED_UnlinkFails ==
    /\ pipeline = "CED"
    /\ pc = "unlink"
    /\ faults < MaxFaults
    /\ faults' = faults + 1
    /\ CED_Raise(it, "OSError", "unlink")
    /\ UNCHANGED <<remote, localDirs>>

\* ------------------------------------------------------------ XRT pipeline
\* any exception in the loop body of run_exchange_rate_pipeline reaches the
\* outer handler, which logs it and raises it again: the run ends
XRT_Raise(itx, cls, at) ==
    /\ runLog' = Append(runLog, [itx EXCEPT !.error = cls, !.at = at,
                                            !.faulted = faults' > itx.faults0])
    /\ ResetWork
    /\ pc' = "idle"
    /\ runResult' = "raised"
    /\ interrupted' = IF at = "delete" THEN interrupted \cup {itx.key} ELSE interrupted
    /\ UNCHANGED <<pipeline, pure, run, toDownload, files, fidx, db>>

\* process_exchange_rate_file up to the loop: pd.read_csv(header=None), every
\* line of the file is a row of the dataframe
XRT_ReadFile ==
    /\ pipeline = "XRT"
    /\ pc = "process"
    /\ fidx <= Len(files)
    /\ UNCHANGED <<remote, localDirs, faults>>
    /\ LET f == files[fidx]
           present == f.local \in DOMAIN localPending
           file == IF present THEN localPending[f.local] ELSE <<>>
           it0 == [NoIter EXCEPT !.key = f.key, !.local = f.local,
                                 !.original = s3Pending[f.key], !.read = file,
                                 !.resumed = f.key \in interrupted,
                                 !.faults0 = faults]
       IN  IF ~present \/ file = <<>>
           THEN \* FileNotFoundError or EmptyDataError, wrapped
                XRT_Raise(it0, "FileProcessingError", "read")
           ELSE /\ batch' = [header |-> <<>>, rows |-> file]
                /\ rowi' = 1
                /\ it' = [it0 EXCEPT !.total = Len(file)]
                /\ pc' = "call"
                /\ UNCHANGED <<pipeline, pure, interrupted, sink, run, toDownload, files, fidx,
                               successful_records, failed_records, result,
                               runLog, runResult>>

\* the Fault replies of the service: "fault" (a rejection with an
\* explanation), "fault_empty" (the explanation is the empty string),
\* "fault_absent" (the detail has no explanation: it deserializes to None),
\* "fault_nodetail" (the Fault has no detail payload: fault.detail is None)
FAULTS == {"fault", "fault_empty", "fault_absent", "fault_nodetail"}

\* the transport failures the function handles
TRANSPORT_FAILURES == {"timeout", "connection_error"}

\* what the remote call does with one row: "ok", a Fault reply, a transport
\* failure, or "other" (any other exception: an HTTP error that is no SOAP
\* fault, a service definition that cannot be loaded)
ServiceOutcomes ==
    {"ok", "fault"} \cup
    (IF faults < MaxFaults
     THEN (FAULTS \cup TRANSPORT_FAILURES \cup {"other"})
     ELSE {})

\* a message is the sequence of its parts between the separators '. '
EXPLANATION == <<"Rate already exists", "Nothing imported.">>
EMPTY_EXPLANATION == <<"">>
CONNECTION_FAILED == <<"SICS server connection attempt has failed", "Please try again.">>

\* a transport failure is reported with the text of the exception
call_exchange_rate_serviceRawError(outcome) ==
    CASE outcome = "ok" -> [raised |-> FALSE, error |-> None]
      [] outcome = "fault" -> [raised |-> FALSE, error |-> EXPLANATION]
      [] outcome = "fault_empty" -> [raised |-> FALSE, error |-> EMPTY_EXPLANATION]
      [] outcome = "fault_absent" -> [raised |-> FALSE, error |-> None]
      [] outcome \in TRANSPORT_FAILURES -> [raised |-> FALSE, error |-> <<outcome>>]
      [] OTHER -> [raised |-> TRUE, error |-> None]

\* call_exchange_rate_service: None on success, the explanation of a Fault
\* (fault.detail[0] raises a TypeError when the Fault has no detail), the
\* fixed text on Timeout and ConnectionError; any other exception leaves it
call_exchange_rate_service(outcome) ==
    CASE outcome = "ok" -> [raised |-> FALSE, error |-> None]
      [] outcome = "fault" -> [raised |-> FALSE, error |-> EXPLANATION]
      [] outcome = "fault_empty" -> [raised |-> FALSE, error |-> EMPTY_EXPLANATION]
      [] outcome = "fault_absent" -> [raised |-> FALSE, error |-> None]
      [] outcome \in TRANSPORT_FAILURES -> [raised |-> FALSE, error |-> CONNECTION_FAILED]
      [] OTHER -> [raised |-> TRUE, error |-> None]

\* the truth value of error_message: None and '' are false
Truthy(error_message) == error_message # None /\ error_message # <<"">>

\* error_message.split(". ")[0]
FirstPart(error_message) == Head(error_message)

\* the branch on error_message of process_exchange_rate_file
XRT_Place(groups, i, row, error_message) ==
    IF Truthy(error_message)
    THEN [groups EXCEPT !.failed =
             Append(@, [row |-> i, cells |-> Append(row, FirstPart(error_message))])]
    ELSE [groups EXCEPT !.ok = Append(@, [row |-> i, cells |-> row])]

\* one iteration of the loop over df.iterrows()
XRT_CallService ==
    /\ pipeline = "XRT"
    /\ pc = "call"
    /\ rowi <= Len(batch.rows)
    /\ \E outcome \in ServiceOutcomes :
          LET row == batch.rows[rowi]
              r == call_exchange_rate_service(outcome)
              itx == [it EXCEPT !.outcomes = Append(@, outcome),
                                !.submitted = Append(@, row)]
              groups == XRT_Place([ok |-> successful_records, failed |-> failed_records],
                                  rowi, row, r.error)
          IN  /\ faults' = IF outcome \in {"ok", "fault"} THEN faults ELSE faults + 1
              /\ IF r.raised
                 THEN XRT_Raise(itx, "FileProcessingError", "call")
                 ELSE /\ successful_records' = groups.ok
                      /\ failed_records' = groups.failed
                      /\ rowi' = rowi + 1
                      /\ it' = itx
                      /\ pc' = IF rowi = Len(batch.rows) THEN "x_save_error" ELSE "call"
                      /\ UNCHANGED <<pipeline, pure, interrupted, sink, run, toDownload, files,
                                     fidx, batch, result, runLog, runResult>>
    /\ UNCHANGED <<remote, localDirs>>

\* the records of a result group
Group(kind) == IF kind = "error" THEN failed_records ELSE successful_records

\* the position after a result group has been dealt with
AfterGroup(kind) == IF kind = "error" THEN "x_save_ok" ELSE "x_delete"

\* `if error_records:` / `if success_records:` and the first part of
\* _save_and_upload_results: the count is set and the group is written to
\* the local pending directory (no header is added)
XRT_Save(kind) ==
    /\ pipeline = "XRT"
    /\ pc = "x_save_" \o kind
    /\ IF Group(kind) = <<>>
       THEN /\ pc' = AfterGroup(kind)
            /\ UNCHANGED <<localPending, result, it>>
       ELSE /\ result' = IF kind = "error"
                         THEN [result EXCEPT !.error_count = Len(Group(kind))]
                         ELSE [result EXCEPT !.success_count = Len(Group(kind))]
            /\ localPending' = Put(localPending, XRT_ResultName(it.local, kind),
                                   Lines(Group(kind)))
            /\ it' = [it EXCEPT !.produced = @ \cup {kind}]
            /\ pc' = "x_upload_" \o kind
    /\ UNCHANGED <<pipeline, pure, interrupted, remote, localProcessed, localError, madeDirs, sink, run,
                   toDownload, files, fidx, batch, rowi, successful_records,
                   failed_records, runLog, runResult, faults>>

\* s3_handler.upload_file(output_path, ...): to the error or processed prefix
XRT_Upload(kind) ==
    /\ pipeline = "XRT"
    /\ pc = "x_upload_" \o kind
    /\ LET name == XRT_ResultName(it.local, kind)
       IN  IF kind = "error"
           THEN /\ s3Error' = Put(s3Error, name, localPending[name])
                /\ UNCHANGED s3Processed
           ELSE /\ s3Processed' = Put(s3Processed, name, localPending[name])
                /\ UNCHANGED s3Error
    /\ it' = [it EXCEPT !.uploaded = @ \cup {kind}]
    /\ pc' = "x_move_" \o kind
    /\ UNCHANGED <<pipeline, pure, interrupted, s3Pending, localDirs, sink, run, toDownload,
                   files, fidx, work, runLog, runResult, faults>>

\* to_csv or the upload raises inside _save_and_upload_results
XRT_SaveOrUploadFails ==
    /\ pipeline = "XRT"
    /\ \/ pc = "x_save_error" /\ failed_records # <<>>
       \/ pc = "x_save_ok" /\ successful_records # <<>>
       \/ pc \in {"x_upload_error", "x_upload_ok"}
    /\ faults < MaxFaults
    /\ faults' = faults + 1
    /\ XRT_Raise(it, "FileProcessingError", pc)
    /\ UNCHANGED <<remote, localDirs>>

\* move_file(output_path, local_dest_dir): the artifact leaves the local
\* pending directory for the error or processed directory
XRT_Move(kind) ==
    /\ pipeline = "XRT"
    /\ pc = "x_move_" \o kind
    /\ LET name == XRT_ResultName(it.local, kind)
       IN  /\ IF kind = "error"
              THEN /\ localError' = Put(localError, name, localPending[name])
                   /\ UNCHANGED localProcessed
              ELSE /\ localProcessed' = Put(localProcessed, name, localPending[name])
                   /\ UNCHANGED localError
           /\ localPending' = Without(localPending, name)
    /\ madeDirs' = madeDirs \cup {IF kind = "error" THEN "error" ELSE "processed"}
    /\ pc' = AfterGroup(kind)
    /\ UNCHANGED <<pipeline, pure, interrupted, remote, sink, run, toDownload, files, fidx, work,
                   hist, faults>>

\* move_file raises: the artifact stays in the local pending directory
XRT_MoveFails ==
    /\ pipeline = "XRT"
    /\ pc \in {"x_move_error", "x_move_ok"}
    /\ faults < MaxFaults
    /\ faults' = faults + 1
    /\ XRT_Raise(it, "FileProcessingError", pc)
    /\ UNCHANGED <<remote, localDirs>>

\* step 4: s3_handler.delete_file of the original object
XRT_DeleteRemote ==
    /\ pipeline = "XRT"
    /\ pc = "x_delete"
    /\ s3Pending' = Without(s3Pending, it.key)
    /\ it' = [it EXCEPT !.deleted = TRUE]
    /\ interrupted' = interrupted \ {it.key}
    /\ pc' = "x_unlink"
    /\ UNCHANGED <<pipeline, pure, s3Processed, s3Error, localDirs, sink, run,
                   toDownload, files, fidx, work, runLog, runResult, faults>>

\* delete_object raises
XRT_DeleteFails ==
    /\ pipeline = "XRT"
    /\ pc = "x_delete"
    /\ faults < MaxFaults
    /\ faults' = faults + 1
    /\ XRT_Raise(it, "S3OperationError", "delete")
    /\ UNCHANGED <<remote, localDirs>>

\* step 5: delete_local_file (nothing happens if the file does not exist),
\* then the end of the loop body
XRT_DeleteLocal ==
    /\ pipeline = "XRT"
    /\ pc = "x_unlink"
    /\ localPending' = Without(localPending, it.local)
    /\ runLog' = Append(runLog, it)
    /\ ResetWork
    /\ pc' = "process"
    /\ fidx' = fidx + 1
    /\ UNCHANGED <<pipeline, pure, interrupted, remote, localProcessed, localError, madeDirs, db, run,
                   toDownload, files, runResult, faults>>

\* ---------------------------------------------------------- specification
Next ==
    \/ StartRun
    \/ ListFails
    \/ Download
    \/ DownloadFails
    \/ FinishRun
    \/ CED_ProcessFile
    \/ CED_Connect
    \/ CED_ConnectFails
    \/ CED_ExecuteInsert
    \/ CED_Commit
    \/ CED_CommitFails
    \/ CED_WriteErrorFile
    \/ CED_WriteSuccessFile
    \/ CED_WriteFails
    \/ CED_UploadSuccess
    \/ CED_UploadError
    \/ CED_UploadFails
    \/ CED_DeleteRemote
    \/ CED_DeleteFails
    \/ CED_Unlink
    \/ CED_UnlinkFails
    \/ XRT_ReadFile
    \/ XRT_CallService
    \/ \E kind \in {"error", "ok"} : XRT_Save(kind)
    \/ \E kind \in {"error", "ok"} : XRT_Upload(kind)
    \/ XRT_SaveOrUploadFails
    \/ \E kind \in {"error", "ok"} : XRT_Move(kind)
    \/ XRT_MoveFails
    \/ XRT_DeleteRemote
    \/ XRT_DeleteFails
    \/ XRT_DeleteLocal

Spec == Init /\ [][Next]_vars

\* the programs started where a result directory does not exist
SpecFresh == InitFresh /\ [][Next]_vars

\* the scheduler goes on starting the program: the runs after the
\* MaxRuns-th are not counted
RunAgain ==
    /\ pc = "idle"
    /\ run = MaxRuns
    /\ runLog' = <<>>
    /\ files' = <<>>
    /\ fidx' = 0
    /\ toDownload' = Listing(s3Pending)
    /\ IF Listing(s3Pending) = <<>>
       THEN pc' = "idle" /\ runResult' = "nofiles"
       ELSE pc' = "download" /\ runResult' = "running"
    /\ UNCHANGED <<pipeline, pure, interrupted, remote, localDirs, sink, work, it, faults,
                   run>>

NextLive == Next \/ RunAgain

\* runs without end: a run that was started goes on to its end, and the
\* scheduler starts the next one
SpecLive == Init /\ [][NextLive]_vars /\ WF_vars(NextLive)

TypeOK ==
    /\ pipeline \in {"CED", "XRT"}
    /\ DOMAIN s3Pending \subseteq Keys
    /\ conn \in {"none", "open", "lost"}
    /\ faults \in 0..MaxFaults
    /\ run \in 0..MaxRuns

\* ------------------------------------------ functions applied on their own
\* the program at rest, nothing pending
Quiet ==
    /\ pipeline \in {"CED", "XRT"}
    /\ s3Pending = <<>>
    /\ s3Processed = <<>>
    /\ s3Error = <<>>
    /\ localPending = <<>>
    /\ localProcessed = <<>>
    /\ localError = <<>>
    /\ madeDirs = {}
    /\ db = <<>>
    /\ txn = <<>>
    /\ conn = "none"
    /\ pc = "idle"
    /\ run = 0
    /\ toDownload = <<>>
    /\ files = <<>>
    /\ fidx = 0
    /\ batch = NoBatch
    /\ rowi = 0
    /\ successful_records = <<>>
    /\ failed_records = <<>>
    /\ result = ProcessingResult
    /\ it = NoIter
    /\ runLog = <<>>
    /\ runResult = "none"
    /\ interrupted = {}
    /\ faults = 0

\* the sequences over a set of at most n elements, the empty one excluded
SeqsUpTo(S, n) == UNION {[1..k -> S] : k \in 1..n}

\* file names: the letter a and the dot, up to MaxNameLen characters
FileNames == SeqsUpTo({"a", DOT}, MaxNameLen)

InitNames ==
    /\ Quiet
    /\ fn = "none"
    /\ arg \in FileNames
    /\ val = None

\* the name of a result file is derived from the name of the original:
\* CED in _write_success_file, _write_error_file and main, XRT in
\* _save_and_upload_results
DeriveName ==
    /\ fn = "none"
    /\ \E kind \in {"ok", "error"} :
          /\ fn' = kind
          /\ val' = IF pipeline = "CED"
                    THEN CED_ResultName(arg, kind)
                    ELSE XRT_ResultName(arg, kind)
    /\ UNCHANGED <<pipeline, remote, localDirs, sink, ctl, work, hist, faults, arg>>

NextNames == DeriveName

SpecNames == InitNames /\ [][NextNames]_vars

\* the field separator of the delimited files: CED sep=';', XRT sep=','
SEPARATOR == IF pipeline = "CED" THEN ";" ELSE ","

\* the quote character of to_csv and read_csv (their default)
QUOTECHAR == "\""

\* the absent value (None, NaN) among values kept as sequences of characters
Absent == <<None>>

\* texts read_csv takes for an absent value (of its default na_values: the
\* empty text and NA)
NA_VALUES == {<<>>, <<"N", "A">>}

\* to_csv, QUOTE_MINIMAL: a text is quoted when it holds the separator or
\* the quote character
NeedsQuotes(text) == \E i \in 1..Len(text) : text[i] \in {SEPARATOR, QUOTECHAR}

\* doublequote: each quote character of a quoted text is written twice
RECURSIVE DoubleQuotes(_)
DoubleQuotes(text) ==
    IF text = <<>> THEN <<>>
    ELSE IF Head(text) = QUOTECHAR
         THEN <<QUOTECHAR, QUOTECHAR>> \o DoubleQuotes(Tail(text))
         ELSE <<Head(text)>> \o DoubleQuotes(Tail(text))

\* no text is quoted
WriteFieldUnquoted(value) == IF value = Absent THEN <<>> ELSE value

\* to_csv, one value: an absent value is written as nothing (na_rep='')
WriteField(value) ==
    IF value = Absent THEN <<>>
    ELSE IF NeedsQuotes(value)
         THEN <<QUOTECHAR>> \o DoubleQuotes(value) \o <<QUOTECHAR>>
         ELSE value

\* the values of a record with the separator between them
RECURSIVE JoinFields(_)
JoinFields(cells) ==
    IF Len(cells) = 1 THEN WriteField(cells[1])
    ELSE WriteField(Head(cells)) \o <<SEPARATOR>> \o JoinFields(Tail(cells))

\* to_csv, one record: a record of one value written as nothing becomes an
\* empty quoted text, so that its line is not blank
WriteLine(cells) ==
    IF JoinFields(cells) = <<>> THEN <<QUOTECHAR, QUOTECHAR>> ELSE JoinFields(cells)

\* to_csv(header=False, index=False): one line per record
to_csv(records) == [i \in 1..Len(records) |-> WriteLine(records[i])]

\* read_csv, the fields of one line: the separator ends a field outside
\* quotes, a quote character at the start of a field opens a quoted text,
\* inside which two quote characters stand for one and one closes it
RECURSIVE SplitLine(_, _, _)
SplitLine(chars, field, quoted) ==
    IF chars = <<>> THEN <<field>>
    ELSE LET c == Head(chars)
             rest == Tail(chars)
         IN  IF quoted
             THEN IF c = QUOTECHAR
                  THEN IF rest # <<>> /\ Head(rest) = QUOTECHAR
                       THEN SplitLine(Tail(rest), Append(field, QUOTECHAR), TRUE)
                       ELSE SplitLine(rest, field, FALSE)
                  ELSE SplitLine(rest, Append(field, c), TRUE)
             ELSE IF c = SEPARATOR
                  THEN <<field>> \o SplitLine(rest, <<>>, FALSE)
                  ELSE IF c = QUOTECHAR /\ field = <<>>
                       THEN SplitLine(rest, field, TRUE)
                       ELSE SplitLine(rest, Append(field, c), FALSE)

\* read_csv(dtype=str), one field: a text of NA_VALUES is an absent value
\* (CED: NaN replaced by None)
ReadField(text) == IF text \in NA_VALUES THEN Absent ELSE text

ReadLine(chars) ==
    LET fields == SplitLine(chars, <<>>, FALSE)
    IN  [j \in 1..Len(fields) |-> ReadField(fields[j])]

\* read_csv: blank lines are skipped; CED takes the first line for the
\* header, XRT (header=None) takes every line for a row
read_csv(lines) ==
    LET kept == SelectSeq(lines, LAMBDA l : l # <<>>)
        rows == IF pipeline = "CED" THEN Tail(kept) ELSE kept
    IN  [i \in 1..Len(rows) |-> ReadLine(rows[i])]

\* the characters of the values of a record
ValueChars == {"N", "A", ";", ",", QUOTECHAR}

\* the values the reader yields for a field: an absent value, or a text that
\* is none of NA_VALUES
Values == {Absent} \cup (SeqsUpTo(ValueChars, MaxValueLen) \ NA_VALUES)

\* the reasons appended to a failed record: texts that are not empty
Reasons == Values \ {Absent}

\* a result group of one record: a value and, in the failure group, a reason
ResultGroups ==
    {<< <<v>> >> : v \in Values} \cup {<< <<v, r>> >> : v \in Values, r \in Reasons}

\* the header record the CED writers put on top of a group
HeaderRecord(group) ==
    IF Len(group[1]) = 1 THEN << <<"P", "I", "D">> >>
    ELSE << <<"P", "I", "D">>, <<"E", "R", "R", "O", "R">> >>

InitRoundTrip ==
    /\ Quiet
    /\ fn = "none"
    /\ arg \in ResultGroups
    /\ val = None

\* the group is written: CED _write_error_file / _write_success_file with
\* the header record on top, XRT _save_and_upload_results without
WriteArtifact ==
    /\ fn = "none"
    /\ fn' = "written"
    /\ val' = IF pipeline = "CED"
              THEN to_csv(<<HeaderRecord(arg)>> \o arg)
              ELSE to_csv(arg)
    /\ UNCHANGED <<pipeline, remote, localDirs, sink, ctl, work, hist, faults, arg>>

\* the artifact is read as the pipeline reads a file
ReadArtifact ==
    /\ fn = "written"
    /\ fn' = "parsed"
    /\ val' = read_csv(val)
    /\ UNCHANGED <<pipeline, remote, localDirs, sink, ctl, work, hist, faults, arg>>

NextRoundTrip == WriteArtifact \/ ReadArtifact

SpecRoundTrip == InitRoundTrip /\ [][NextRoundTrip]_vars

\* ------------------------------------------------- messages and reasons
\* re.IGNORECASE, for the letters of the patterns
LowerCase(c) ==
    CASE c = "C" -> "c" [] c = "P" -> "p" [] c = "W" -> "w" [] c = "D" -> "d"
      [] OTHER -> c

\* error_str.replace("\\", "/")
RECURSIVE SlashesForBackslashes(_)
SlashesForBackslashes(text) ==
    IF text = <<>> THEN <<>>
    ELSE <<IF Head(text) = "\\" THEN "/" ELSE Head(text)>>
         \o SlashesForBackslashes(Tail(text))

\* the characters that end a match: [^\s;'"]
STOP_CHARS == {" ", ";", "'", "\""}

\* text starts with the literal, whatever the case of its letters
StartsWith(text, literal) ==
    /\ Len(text) >= Len(literal)
    /\ \A i \in 1..Len(literal) : LowerCase(text[i]) = literal[i]

\* the length of the run of characters outside STOP_CHARS from position i on
RECURSIVE RunLength(_, _)
RunLength(text, i) ==
    IF i > Len(text) \/ text[i] \in STOP_CHARS THEN 0 ELSE 1 + RunLength(text, i + 1)

\* the length of the match of <literal>[^\s;'"]+ at the start of text, 0 when
\* there is none
MatchLength(text, literals) ==
    IF \E l \in literals : StartsWith(text, l) /\ RunLength(text, Len(l) + 1) > 0
    THEN LET l == CHOOSE l \in literals : StartsWith(text, l)
         IN  Len(l) + RunLength(text, Len(l) + 1)
    ELSE 0

\* re.sub(pattern, replacement, error_str, flags=re.IGNORECASE)
RECURSIVE Substitute(_, _, _)
Substitute(text, literals, replacement) ==
    IF text = <<>> THEN <<>>
    ELSE IF MatchLength(text, literals) > 0
         THEN replacement
              \o Substitute(SubSeq(text, MatchLength(text, literals) + 1, Len(text)),
                            literals, replacement)
         ELSE <<Head(text)>> \o Substitute(Tail(text), literals, replacement)

\* the three sensitive_patterns and their replacements
PATH_PATTERN == {<<"c", ":", "/">>}
PASSWORD_PATTERN == {<<"p", "a", "s", "s", "w", "o", "r", "d", "=">>,
                     <<"p", "a", "s", "s", "w", "o", "r", "d", ":">>}
PWD_PATTERN == {<<"p", "w", "d", "=">>, <<"p", "w", "d", ":">>}
PATH_MARK == <<"[", "P", "A", "T", "H", "]">>
REDACTED == <<"[", "R", "E", "D", "A", "C", "T", "E", "D", "]">>
PASSWORD_MARK == <<"p", "a", "s", "s", "w", "o", "r", "d", "=">> \o REDACTED
PWD_MARK == <<"p", "w", "d", "=">> \o REDACTED

\* sanitize_error_message: backslashes become slashes, then the three
\* patterns are replaced one after the other
sanitize_error_message(error_str) ==
    Substitute(
        Substitute(
            Substitute(SlashesForBackslashes(error_str), PATH_PATTERN, PATH_MARK),
            PASSWORD_PATTERN, PASSWORD_MARK),
        PWD_PATTERN, PWD_MARK)

\* error_message.split(". ")[0] on the characters of a message
RECURSIVE SplitFirst(_)
SplitFirst(text) ==
    IF text = <<>> THEN <<>>
    ELSE IF Len(text) >= 2 /\ text[1] = "." /\ text[2] = " " THEN <<>>
         ELSE <<Head(text)>> \o SplitFirst(Tail(text))

\* the words of raw messages: a word, a word that ends a sentence, paths
\* (drive C with backslashes, drive D, rooted), credentials (PWD=, password:,
\* pwd= with a quoted value)
MessageWords ==
    {<<"e">>, <<"e", ".">>,
     <<"C", ":", "\\", "t", "\\", "f">>,
     <<"D", ":", "\\", "f">>,
     <<"/", "v", "/", "f">>,
     <<"P", "W", "D", "=", "x">>,
     <<"p", "a", "s", "s", "w", "o", "r", "d", ":", "x">>,
     <<"p", "w", "d", "=", "'", "x", "'">>}

\* the words of a message with one space between them
RECURSIVE JoinWords(_)
JoinWords(words) ==
    IF Len(words) = 1 THEN words[1]
    ELSE Head(words) \o <<" ">> \o JoinWords(Tail(words))

\* str(error) of a driver error, the explanation of a service fault, the
\* text of an exception caught by main
RawMessages == {JoinWords(w) : w \in SeqsUpTo(MessageWords, MaxWords)}

InitReasons ==
    /\ Quiet
    /\ fn = "none"
    /\ arg \in RawMessages
    /\ val = None

\* the reason stored with a failed record: CED execute_insert returns the
\* sanitized message, XRT appends the first sentence of the explanation
StoreReason ==
    /\ fn = "none"
    /\ fn' = "reason"
    /\ val' = IF pipeline = "CED" THEN sanitize_error_message(arg) ELSE SplitFirst(arg)
    /\ UNCHANGED <<pipeline, remote, localDirs, sink, ctl, work, hist, faults, arg>>

\* what a per-file handler of main logs and prints for an exception of class
\* cls with the text message: only the pyodbc.Error handler sanitizes
LoggedMessage(cls, message) ==
    IF cls = "pyodbc.Error" THEN sanitize_error_message(message) ELSE message

\* CED main: one of the per-file handlers logs the exception it caught
LogFileError ==
    /\ pipeline = "CED"
    /\ fn = "none"
    /\ \E cls \in CED_HANDLED :
          /\ fn' = cls
          /\ val' = LoggedMessage(cls, arg)
    /\ UNCHANGED <<pipeline, remote, localDirs, sink, ctl, work, hist, faults, arg>>

NextReasons == StoreReason \/ LogFileError

SpecReasons == InitReasons /\ [][NextReasons]_vars

\* ------------------------------------------- the record sent by XRT
\* separator.join(texts)
RECURSIVE JoinWith(_, _)
JoinWith(texts, separator) ==
    IF texts = <<>> THEN <<>>
    ELSE IF Len(texts) = 1 THEN texts[1]
    ELSE Head(texts) \o <<separator>> \o JoinWith(Tail(texts), separator)

\* str(val) of a value of the dataframe: the text itself, nan for the
\* not-a-number value read_csv puts in place of an absent field
Str(value) == IF value = Absent THEN <<"n", "a", "n">> ELSE value

\* csv_record = ','.join(str(val) for val in row.values)
csv_record(values) == JoinWith([j \in 1..Len(values) |-> Str(values[j])], ",")

\* the fields of the lines of an input file: nothing, or a text of N and A
InputFields == {<<>>} \cup SeqsUpTo({"N", "A"}, MaxValueLen)

\* the lines of an input file, as sequences of fields (a line of one empty
\* field is a blank line, which read_csv skips)
InputLines == SeqsUpTo(InputFields, MaxFields) \ {<< <<>> >>}

InitRecord ==
    /\ Quiet
    /\ pipeline = "XRT"
    /\ fn = "none"
    /\ arg \in InputLines
    /\ val = None

\* process_exchange_rate_file: read_csv(dtype=str, header=None) gives the
\* values of the line
ReadRecord ==
    /\ fn = "none"
    /\ fn' = "read"
    /\ val' = ReadLine(JoinWith(arg, ","))
    /\ UNCHANGED <<pipeline, remote, localDirs, sink, ctl, work, hist, faults, arg>>

\* process_exchange_rate_file: the record sent to the service is built
BuildRecord ==
    /\ fn = "read"
    /\ fn' = "sent"
    /\ val' = csv_record(val)
    /\ UNCHANGED <<pipeline, remote, localDirs, sink, ctl, work, hist, faults, arg>>

NextRecord == ReadRecord \/ BuildRecord

SpecRecord == InitRecord /\ [][NextRecord]_vars

\* ----------------------------------------------------------------- claims
\* the iterations of the current run: the finished ones, then the one in progress
AllIters == IF it = NoIter THEN runLog ELSE Append(runLog, it)

\* the positions at which an upload is made
UploadPositions == {"upload_ok", "upload_error", "x_upload_ok", "x_upload_error"}

\* C1: in both pipelines the original object leaves the remote pending
\* prefix only after every result artifact produced for it in this run has
\* been uploaded, and an iteration that ended in a failed upload leaves the
\* object in remote pending.
C1_DeleteOnlyAfterUploads ==
    \A i \in 1..Len(AllIters) :
        LET e == AllIters[i]
        IN  /\ e.key \notin DOMAIN s3Pending =>
                 /\ e.deleted
                 /\ e.produced \subseteq e.uploaded
                 /\ e.at \notin UploadPositions
            /\ e.at \in UploadPositions =>
                 /\ e.key \in DOMAIN s3Pending
                 /\ s3Pending[e.key] = e.original

\* C1 witness: one file was deleted after both of its artifacts were
\* uploaded, and another file's upload failed
C1_Witness ==
    \E i, j \in 1..Len(AllIters) :
        /\ AllIters[i].produced = {"ok", "error"}
        /\ AllIters[i].key \notin DOMAIN s3Pending
        /\ AllIters[j].at \in UploadPositions

\* the positions before the uploads of a file are complete
BeforeUploaded ==
    {"read", "validate", "connect", "insert", "commit", "write_error",
     "write_success", "call", "x_save_error", "x_move_error", "x_save_ok"}
        \cup UploadPositions

\* C2: a file whose processing failed before all of its artifacts were
\* uploaded is, at the end of the run, still in remote pending and in local
\* pending, unmodified.
C2_FailedFileStaysPending ==
    pc = "idle" =>
        \A i \in 1..Len(runLog) :
            LET e == runLog[i]
            IN  e.at \in BeforeUploaded =>
                    /\ e.key \in DOMAIN s3Pending
                    /\ s3Pending[e.key] = e.original
                    /\ e.local \in DOMAIN localPending
                    /\ localPending[e.local] = e.original

\* the number of entries of a result group that hold row i of the batch
Holds(records, i) == Cardinality({k \in 1..Len(records) : records[k].row = i})

\* a file is being processed and has been parsed
Parsed == batch # NoBatch

\* C3: every row of the batch that has been attempted is in exactly one of
\* the two result groups, with its own cells, and no other row is in a group;
\* after the loop this is every row of the batch.
C3_ExactlyOneGroup ==
    Parsed =>
        \A i \in 1..Len(batch.rows) :
            LET inOk == Holds(successful_records, i)
                inFailed == Holds(failed_records, i)
            IN  /\ inOk + inFailed = (IF i < rowi THEN 1 ELSE 0)
                /\ \A k \in 1..Len(successful_records) :
                      successful_records[k].row = i =>
                          successful_records[k].cells = batch.rows[i]
                /\ \A k \in 1..Len(failed_records) :
                      failed_records[k].row = i =>
                          SubSeq(failed_records[k].cells, 1, Len(batch.rows[i]))
                              = batch.rows[i]

\* C3 witness: the loop of a CED file is over with one row in each group
C3_Witness ==
    /\ pipeline = "CED"
    /\ pc = "write_error"
    /\ Len(successful_records) = 1
    /\ Len(failed_records) = 1

\* the positions right after process_file / process_exchange_rate_file returned
Returned == {"upload_ok", "x_delete"}

\* C4: when the processing of a file returns, the reported success count
\* plus the reported failure count is the number of rows of the batch.
C4_CountsSumToBatchSize ==
    pc \in Returned =>
        result.success_count + result.error_count = Len(batch.rows)

\* C4 witness: an XRT file returned with every row failed, the success count
\* keeping its default
C4_Witness ==
    /\ pipeline = "XRT"
    /\ pc = "x_delete"
    /\ result.success_count = 0
    /\ result.error_count = Len(batch.rows)
    /\ Len(batch.rows) > 1

\* every file downloaded in the run was handed to the processing function
AllHanded ==
    \A j \in 1..Len(files) : \E i \in 1..Len(runLog) : runLog[i].key = files[j].key

\* a run whose downloads were all made has ended
RunOver == pc = "idle" /\ run > 0 /\ toDownload = <<>>

\* C5: in CED a failure while one downloaded file is processed never ends
\* the run: at the end of the run every downloaded file has been handed to
\* process_file.
C5_CEDRunNeverAborted == (pipeline = "CED" /\ RunOver) => AllHanded

\* C6: in XRT a failure while one downloaded file is processed never ends
\* the run: at the end of the run every downloaded file has been handed to
\* process_exchange_rate_file.
C6_XRTRunNeverAborted == (pipeline = "XRT" /\ RunOver) => AllHanded

AfterCommit ==
    {"write_error", "write_success", "upload_ok", "upload_error", "delete", "unlink"}

\* C8: in CED a statement failure on row i puts row i, with the reason, in
\* the failure group and nowhere else, never leaves the loop, and the rows
\* accepted before and after it are in the success group; after the loop
\* every row has been submitted.
C8_StatementFailureIsRecorded ==
    pipeline = "CED" =>
        /\ \A k \in 1..Len(runLog) :
              /\ runLog[k].at # "insert"
              /\ runLog[k].commits = 1 => Len(runLog[k].outcomes) = runLog[k].total
        /\ \A i \in 1..Len(it.outcomes) :
              /\ it.outcomes[i] = "reject" =>
                    /\ Holds(successful_records, i) = 0
                    /\ \E k \in 1..Len(failed_records) :
                          /\ failed_records[k].row = i
                          /\ failed_records[k].cells =
                                Append(batch.rows[i], DriverMessage("reject"))
              /\ it.outcomes[i] = "ok" =>
                    /\ Holds(successful_records, i) = 1
                    /\ Holds(failed_records, i) = 0
        /\ pc \in AfterCommit => Len(it.outcomes) = Len(batch.rows)

\* C8 witness: the first row was rejected, the second accepted, and the
\* batch was committed
C8_Witness ==
    /\ pipeline = "CED"
    /\ pc = "write_error"
    /\ it.outcomes = <<"reject", "ok">>
    /\ Len(successful_records) = 1

\* the insert data of the rows of the success group, in order
SuccessData ==
    LET rows == SelectSeq(successful_records, LAMBDA r : r.row > 0)
    IN  [k \in 1..Len(rows) |-> InsertData(batch.header, batch.rows[rows[k].row])]

\* C9: in CED commit is issued at most once per file, only when every row
\* has been attempted; nothing of the file is durable before it, and after
\* it the rows made durable for the file are exactly the rows of the success
\* group.
C9_OneCommitAfterAllRows ==
    pipeline = "CED" =>
        /\ \A i \in 1..Len(AllIters) :
              LET e == AllIters[i]
              IN  /\ e.commits <= 1
                  /\ e.commits = 1 =>
                        /\ e.commitAt = e.total
                        /\ Len(e.outcomes) = e.total
        /\ pc \in {"connect", "insert"} =>
              /\ it.commits = 0
              /\ Len(db) = it.dbLen
        /\ pc \in AfterCommit =>
              /\ it.commits = 1
              /\ Len(db) = it.dbLen + Len(SuccessData)
              /\ SubSeq(db, it.dbLen + 1, Len(db)) = SuccessData

\* C9 witness: a batch with one accepted and one rejected row was committed
C9_Witness ==
    /\ pipeline = "CED"
    /\ pc = "write_error"
    /\ it.outcomes = <<"ok", "reject">>
    /\ Len(db) = it.dbLen + 1

\* C10: in CED a connection-level failure is fatal for the file: after it no
\* further row is attempted, the failed row is not recorded as a per-record
\* failure, no artifact is written and the object stays pending.
C10_ConnectionFailureAbortsBatch ==
    pipeline = "CED" =>
        \A i \in 1..Len(AllIters) :
            LET e == AllIters[i]
            IN  /\ e.at = "connect" =>
                      /\ e.outcomes = <<>>
                      /\ e.produced = {}
                      /\ e.key \in DOMAIN s3Pending
                /\ \A k \in 1..Len(e.outcomes) :
                      e.outcomes[k] = "lost" =>
                          /\ k = Len(e.outcomes)
                          /\ e.produced = {}
                          /\ e.key \in DOMAIN s3Pending
                          /\ e = it => Holds(failed_records, k) = 0

\* the last outcome of an iteration
LastOutcome(e) == e.outcomes[Len(e.outcomes)]

\* C11: in XRT every row the service answered with a Fault is in the failure
\* group, once, and not in the success group, whatever the explanation of the
\* Fault is (empty or absent included); with an explanation, its first
\* sentence is the recorded reason.
C11_FaultGoesToFailureGroup ==
    pipeline = "XRT" =>
        /\ \A k \in 1..Len(runLog) :
              (runLog[k].at = "call") => LastOutcome(runLog[k]) \notin FAULTS
        /\ \A i \in 1..Len(it.outcomes) :
              it.outcomes[i] \in FAULTS =>
                  /\ Holds(successful_records, i) = 0
                  /\ Holds(failed_records, i) = 1
                  /\ it.outcomes[i] = "fault" =>
                        \E k \in 1..Len(failed_records) :
                            /\ failed_records[k].row = i
                            /\ failed_records[k].cells =
                                  Append(batch.rows[i], "Rate already exists")

\* the positions of XRT after the loop over the rows
AfterCalls ==
    {"x_save_error", "x_upload_error", "x_move_error", "x_save_ok",
     "x_upload_ok", "x_move_ok", "x_delete", "x_unlink"}

\* C12: in XRT a timeout or a connection error on row i puts row i in the
\* failure group, once, with the one fixed text as its reason, whichever of
\* the two it was; the row is attempted once and the loop goes on to row i+1.
C12_TransportFailureIsFixedText ==
    pipeline = "XRT" =>
        /\ \A k \in 1..Len(runLog) :
              (runLog[k].at = "call") => LastOutcome(runLog[k]) \notin TRANSPORT_FAILURES
        /\ pc = "call" => Len(it.outcomes) = rowi - 1
        /\ pc \in AfterCalls => Len(it.outcomes) = Len(batch.rows)
        /\ \A i \in 1..Len(it.outcomes) :
              it.outcomes[i] \in TRANSPORT_FAILURES =>
                  /\ Holds(successful_records, i) = 0
                  /\ Holds(failed_records, i) = 1
                  /\ \E k \in 1..Len(failed_records) :
                        /\ failed_records[k].row = i
                        /\ failed_records[k].cells =
                              Append(batch.rows[i],
                                     "SICS server connection attempt has failed")

\* C12 witness: the first row met a timeout, the second row was accepted
C12_Witness ==
    /\ pipeline = "XRT"
    /\ pc = "x_save_error"
    /\ it.outcomes = <<"timeout", "ok">>
    /\ Len(successful_records) = 1

\* C13: in XRT call_exchange_rate_service never raises: no iteration ends in
\* the loop over the rows, and after the loop every row has been attempted.
C13_SubmitNeverRaises ==
    pipeline = "XRT" =>
        /\ \A k \in 1..Len(runLog) : runLog[k].at # "call"
        /\ pc \in AfterCalls => Len(it.outcomes) = Len(batch.rows)

\* the rows of a file that are records: CED reads the first line as the
\* header, XRT reads every line as a row
SourceRows(file) == IF pipeline = "CED" THEN Tail(file) ELSE file

\* what is submitted to the sink for row i of a file
SinkData(file, i) ==
    IF pipeline = "CED" THEN InsertData(Head(file), Tail(file)[i]) ELSE file[i]

\* the records of a list are in the order of the rows of the file
InRowOrder(records) ==
    \A k, l \in 1..Len(records) : k < l => records[k].row < records[l].row

\* C14: within one run the rows submitted in the iteration of an object are
\* the rows of that object, each once and in the order of the file; no file
\* is submitted in two iterations of the run; the rows of each group, and of
\* the artifact written from it, are in the order of the file.
C14_EachRecordOnceInOrder ==
    /\ \A i \in 1..Len(AllIters) :
          LET e == AllIters[i]
          IN  e.outcomes # <<>> =>
                  /\ e.read = e.original
                  /\ Len(e.submitted) = Len(e.outcomes)
                  /\ Len(e.submitted) <= Len(SourceRows(e.read))
                  /\ \A k \in 1..Len(e.submitted) : e.submitted[k] = SinkData(e.read, k)
    /\ \A i, j \in 1..Len(AllIters) :
          (i < j /\ AllIters[i].outcomes # <<>> /\ AllIters[j].outcomes # <<>>) =>
              AllIters[i].local # AllIters[j].local
    /\ InRowOrder(successful_records)
    /\ InRowOrder(failed_records)
    /\ (pc = "upload_ok" /\ "ok" \in it.produced) =>
          localProcessed[CED_ResultName(it.local, "ok")] = Lines(successful_records)
    /\ (pc = "upload_ok" /\ "error" \in it.produced) =>
          localError[CED_ResultName(it.local, "error")] = Lines(failed_records)
    /\ pc = "x_upload_error" =>
          localPending[XRT_ResultName(it.local, "error")] = Lines(failed_records)
    /\ pc = "x_upload_ok" =>
          localPending[XRT_ResultName(it.local, "ok")] = Lines(successful_records)

\* every statement of the iteration had the outcome o (none, for no row)
AllOutcomes(e, o) == \A k \in 1..Len(e.outcomes) : e.outcomes[k] = o

\* C15: in CED, over the runs, an iteration in which every row was accepted
\* uploads no error artifact, and an iteration in which every row was
\* rejected uploads no success artifact.
C15_EmptyGroupUploadsNothing ==
    pipeline = "CED" =>
        \A i \in 1..Len(AllIters) :
            LET e == AllIters[i]
            IN  /\ AllOutcomes(e, "ok") => "error" \notin e.uploaded
                /\ AllOutcomes(e, "reject") => "ok" \notin e.uploaded

\* <base><suffix>.<ext>: ext the text after the last dot of the name, base
\* everything before that dot
SuffixBeforeExtension(name, kind) ==
    LET d == LastIndexOf(name, DOT)
    IN  SubSeq(name, 1, d - 1) \o Suffix(kind) \o <<DOT>> \o SubSeq(name, d + 1, Len(name))

\* C16: for every file name with a dot, in CED and in XRT, the success
\* artifact is named <base>_ok.<ext> and the error artifact <base>_error.<ext>:
\* the suffix is inserted once, right before the last dot.
C16_SuffixOnceBeforeExtension ==
    (fn \in {"ok", "error"} /\ DOT \in Range(arg)) =>
        val = SuffixBeforeExtension(arg, fn)

\* the value of column c in a line laid out under the header line head
Under(head, line, c) == line[IndexOf(head, c)]

\* the lines of an artifact after its header line
DataLines(artifact) == 2..Len(artifact)

\* C17: in CED, when process_file has written its artifacts, every row of an
\* artifact has, under each header cell c of COLUMNS_TO_USE, the value its
\* source row has for column c; in the error artifact ERROR is the last
\* header cell and the failure reason of the row is under it.
C17_ValuesUnderTheirColumns ==
    (pipeline = "CED" /\ pc = "upload_ok") =>
        /\ "ok" \in it.produced =>
              LET artifact == localProcessed[CED_ResultName(it.local, "ok")]
              IN  \A k \in DataLines(artifact) :
                      \A c \in Range(COLUMNS_TO_USE) :
                          Under(artifact[1], artifact[k], c) =
                              Under(batch.header,
                                    batch.rows[successful_records[k].row], c)
        /\ "error" \in it.produced =>
              LET artifact == localError[CED_ResultName(it.local, "error")]
              IN  /\ artifact[1][Len(artifact[1])] = "ERROR"
                  /\ \A k \in DataLines(artifact) :
                        /\ \A c \in Range(COLUMNS_TO_USE) :
                              Under(artifact[1], artifact[k], c) =
                                  Under(batch.header,
                                        batch.rows[failed_records[k].row], c)
                        /\ Under(artifact[1], artifact[k], "ERROR") =
                              DriverMessage(it.outcomes[failed_records[k].row])

\* C18: in XRT a result artifact that is written starts with a header row
\* (whose last cell is ERROR in the error artifact), followed by one row per
\* record of the group.
C18_XRTArtifactHasHeaderRow ==
    pipeline = "XRT" =>
        /\ pc = "x_upload_error" =>
              LET artifact == localPending[XRT_ResultName(it.local, "error")]
              IN  /\ Len(artifact) = Len(failed_records) + 1
                  /\ artifact[1][Len(artifact[1])] = "ERROR"
                  /\ \A k \in 1..Len(failed_records) :
                        artifact[k + 1] = failed_records[k].cells
        /\ pc = "x_upload_ok" =>
              LET artifact == localPending[XRT_ResultName(it.local, "ok")]
              IN  /\ Len(artifact) = Len(successful_records) + 1
                  /\ \A k \in 1..Len(successful_records) :
                        artifact[k + 1] = successful_records[k].cells

\* C19: in XRT the first line of an input file, its header row, is not a
\* record: it is not counted in the batch size and not submitted, and the
\* calls made for the file are those for the lines after it, in order.
C19_XRTHeaderIsNotARecord ==
    pipeline = "XRT" =>
        \A i \in 1..Len(AllIters) :
            LET e == AllIters[i]
            IN  e.total >= 0 =>
                    /\ e.total = Len(e.read) - 1
                    /\ Len(e.submitted) <= e.total
                    /\ \A k \in 1..Len(e.submitted) : e.submitted[k] = e.read[k + 1]

\* C20: a result group written to a delimited artifact and read back with
\* the same separator gives the same records with the same values, absent
\* values, values holding the separator or the quote character and the
\* appended reason included.
C20_RoundTrip == fn = "parsed" => val = arg

\* C20 witness: a failed record with an absent value and a reason that holds
\* the separator was written and read back
C20_Witness ==
    /\ fn = "parsed"
    /\ Len(arg[1]) = 2
    /\ arg[1][1] = Absent
    /\ arg[1][2] = <<"A", SEPARATOR>>

\* the remote artifact of a kind
RemoteArtifacts(kind) == IF kind = "ok" THEN s3Processed ELSE s3Error

\* the name of the artifact of a kind for a local file name
ResultName(name, kind) ==
    IF pipeline = "CED" THEN CED_ResultName(name, kind) ELSE XRT_ResultName(name, kind)

\* the positions right after the uploads of a file, before its delete
AtDelete == {"delete", "x_delete"}

\* C21: a file whose earlier processing was cut off after its uploads and
\* before its delete is processed again by the next run: no error ends the
\* iteration unless a new environment failure occurs, the records of the
\* object are submitted again, every artifact uploaded in the iteration was
\* written in it from its own groups (nothing left by the earlier run is
\* uploaded), and the iteration ends with the original deleted.
C21_RerunAfterInterruption ==
    /\ \A i \in 1..Len(AllIters) :
          LET e == AllIters[i]
          IN  e.resumed =>
                  /\ e.error # "none" => e.faulted
                  /\ e.uploaded \subseteq e.produced
                  /\ e.deleted =>
                        /\ e.read = e.original
                        /\ Len(e.submitted) = Len(SourceRows(e.original))
                        /\ \A k \in 1..Len(e.submitted) :
                              e.submitted[k] = SinkData(e.original, k)
                        /\ e.key \notin DOMAIN s3Pending
                  /\ (e.error = "none" /\ e # it) => e.deleted
    /\ (it.resumed /\ pc \in AtDelete) =>
          /\ batch.rows # <<>> => it.produced # {}
          /\ \A kind \in it.produced :
                RemoteArtifacts(kind)[ResultName(it.local, kind)] = Lines(Group(kind))

\* a letter of a drive
DriveLetters == {"C", "D", "c", "d"}

\* the text holds a filesystem path: a drive letter, a colon and a slash or
\* backslash, or a slash at the start of a word followed by a name
ContainsPath(text) ==
    \E i \in 1..Len(text) :
        \/ /\ i + 2 <= Len(text)
           /\ text[i] \in DriveLetters
           /\ text[i + 1] = ":"
           /\ text[i + 2] \in {"/", "\\"}
        \/ /\ text[i] = "/"
           /\ i = 1 \/ text[i - 1] \in STOP_CHARS
           /\ i + 1 <= Len(text)
           /\ text[i + 1] \notin STOP_CHARS

\* the text holds a credential: pwd or password, = or :, and a value that is
\* not the redaction mark
ContainsCredential(text) ==
    \E i \in 1..Len(text) :
        \E l \in PASSWORD_PATTERN \cup PWD_PATTERN :
            LET rest == SubSeq(text, i, Len(text))
                value == SubSeq(rest, Len(l) + 1, Len(rest))
            IN  /\ StartsWith(rest, l)
                /\ value # <<>>
                /\ Head(value) \notin {" ", ";"}
                /\ SubSeq(value, 1, Len(REDACTED)) # REDACTED

\* C22: in both pipelines the reason stored with a failed record holds no
\* filesystem path and no credential, whatever the raw message of the driver
\* or of the service is.
C22_ReasonHasNoPathOrCredential ==
    fn = "reason" => ~ContainsPath(val) /\ ~ContainsCredential(val)

\* C23: in CED every exception caught by a per-file handler of main is
\* logged and printed as the sanitizer returns it, and the logged text holds
\* no filesystem path and no credential.
C23_LoggedErrorsAreSanitized ==
    fn \in CED_HANDLED =>
        /\ val = sanitize_error_message(arg)
        /\ ~ContainsPath(val)
        /\ ~ContainsCredential(val)

\* C24: in both pipelines a failed listing of the remote pending prefix ends
\* the run at once: nothing is downloaded, submitted, written, uploaded or
\* deleted, and the failure reaches the caller of the pipeline (the
\* exception leaves main / run_exchange_rate_pipeline).
C24_ListingFailureIsFatal ==
    [][ListFails =>
          /\ UNCHANGED <<remote, localDirs, sink>>
          /\ files' = <<>>
          /\ runLog' = <<>>
          /\ pc' = "idle"
          /\ runResult' = "raised"]_vars

\* C25: in both pipelines a run that ended with objects not downloaded (a
\* download failed) left at most the one object whose download failed, and
\* every other object listed in the run was downloaded and handed to the
\* processing function.
C25_DownloadFailureIsPerFile ==
    (pc = "idle" /\ toDownload # <<>>) =>
        /\ Len(toDownload) = 1
        /\ AllHanded

\* C26: in both pipelines the local pending copy of an object listed in the
\* run is gone only when the object has left the remote pending prefix, and
\* after a failed delete of the object the local copy is there as it was read.
C26_RemoteDeleteBeforeLocalDelete ==
    /\ \A j \in 1..Len(files) :
          files[j].local \notin DOMAIN localPending =>
              files[j].key \notin DOMAIN s3Pending
    /\ \A i \in 1..Len(AllIters) :
          LET e == AllIters[i]
          IN  e.at = "delete" =>
                  /\ e.local \in DOMAIN localPending
                  /\ localPending[e.local] = e.read

\* C27: in XRT the line sent to the service has an empty field wherever the
\* line of the input file has an empty field, and keeps the other fields of
\* the line.
C27_AbsentFieldIsSentEmpty ==
    fn = "sent" =>
        LET sent == SplitLine(val, <<>>, FALSE)
        IN  /\ Len(sent) = Len(arg)
            /\ \A j \in 1..Len(arg) : arg[j] = <<>> => sent[j] = <<>>

\* C28: in CED INSERT_COLUMN_ORDER holds every column of COLUMNS_TO_USE once
\* and no other column, the statement has one placeholder per column of it,
\* and in every record submitted the value at position i is the value the
\* row has in the file under the column INSERT_COLUMN_ORDER[i], whatever the
\* order of the columns of the file.
C28_InsertProjectionIsExact ==
    /\ Range(INSERT_COLUMN_ORDER) = Range(COLUMNS_TO_USE)
    /\ Cardinality(Range(INSERT_COLUMN_ORDER)) = Len(INSERT_COLUMN_ORDER)
    /\ Len(INSERT_COLUMN_ORDER) = Len(COLUMNS_TO_USE)
    /\ build_insert_statement.columns = INSERT_COLUMN_ORDER
    /\ Len(build_insert_statement.placeholders) = Len(INSERT_COLUMN_ORDER)
    /\ pipeline = "CED" =>
          \A n \in 1..Len(AllIters) :
              LET e == AllIters[n]
              IN  \A k \in 1..Len(e.submitted) :
                      /\ Len(e.submitted[k]) = Len(build_insert_statement.placeholders)
                      /\ \A i \in 1..Len(INSERT_COLUMN_ORDER) :
                            \A j \in 1..Len(Head(e.read)) :
                                Head(e.read)[j] = INSERT_COLUMN_ORDER[i] =>
                                    e.submitted[k][i] = Tail(e.read)[k][j]

\* C28 witness: the row of a file whose columns are in another order than
\* COLUMNS_TO_USE, with one column more, was submitted
C28_Witness ==
    /\ pipeline = "CED"
    /\ it.read = ReorderedFile
    /\ Len(it.submitted) = 1

\* C29: at every point of every sequence of runs no file name is in the
\* local processed directory and in the local error directory at once.
C29_NoNameInBothTerminalDirs ==
    DOMAIN localProcessed \cap DOMAIN localError = {}

\* C30: the local processed and error directories are made on demand:
\* started without them, writing a non-empty group of results does not fail
\* for want of its directory; a write that fails is one the environment
\* made fail
C30_ResultDirsAreMadeOnDemand ==
    \A i \in DOMAIN AllIters :
        AllIters[i].at \in {"write_error", "write_success"} => AllIters[i].faulted

\* C31: in CED no record is lost when several objects are pending, objects
\* of different sub-prefixes with the same file name included: the
\* downloaded objects have each their own local file, and an object is
\* deleted from remote pending only if the records submitted in its
\* iteration were its own records
C31_EachObjectItsOwnRecords ==
    pipeline = "CED" =>
        /\ \A i, j \in DOMAIN files :
              files[i].local = files[j].local => i = j
        /\ \A i \in DOMAIN AllIters :
              LET e == AllIters[i]
              IN  e.deleted =>
                      /\ e.read = e.original
                      /\ Len(e.submitted) = Len(SourceRows(e.original))
                      /\ \A k \in 1..Len(e.submitted) :
                            e.submitted[k] = SinkData(e.original, k)

\* the iterations of CED that ended before the commit was done: the
\* connection could not be opened, or the commit failed
AbortedBeforeCommit(e) ==
    /\ pipeline = "CED"
    /\ e.error = "pyodbc.Error"
    /\ e.at \in {"connect", "commit"}

\* C32: when the batch of a CED file aborts before the commit, no record of
\* the file is persisted by the run, no artifact is written or uploaded, and
\* the file stays in remote pending and in local pending
C32_AbortBeforeCommitLeavesNoTrace ==
    \A i \in DOMAIN AllIters :
        LET e == AllIters[i]
        IN  AbortedBeforeCommit(e) =>
                /\ e.committed = <<>>
                /\ e.produced = {}
                /\ e.uploaded = {}
                /\ ~e.deleted
                /\ e.key \in DOMAIN s3Pending
                /\ e.local \in DOMAIN localPending

\* a file the pipeline can parse: CED, a header with every required column;
\* XRT, at least one line
ValidFile(file) ==
    /\ file # <<>>
    /\ pipeline = "CED" => MissingColumns(Head(file), INSERT_COLUMN_ORDER) = {}

\* C33: retried until done: a valid file that is in remote pending is
\* eventually removed from it, when the runs go on and the failures of the
\* environment come to an end
C33_ValidFileIsEventuallyRemoved ==
    \A k \in Keys :
        (k \in DOMAIN s3Pending /\ ValidFile(s3Pending[k])) ~> (k \notin DOMAIN s3Pending)

\* an object that fails in every run: it is pending and cannot be parsed
PoisonPending(j) == j \in DOMAIN s3Pending /\ ~ValidFile(s3Pending[j])

\* C34: no starvation by a poison file in XRT: with the pending objects all
\* directly under the prefix and one of them failing in every run, every
\* other valid pending object is eventually removed from remote pending
C34_PoisonFileStarvesNoOther ==
    \A k \in Keys :
        (/\ pipeline = "XRT"
         /\ \A j \in DOMAIN s3Pending : Writable(j)
         /\ \E j \in Keys \ {k} : PoisonPending(j)
         /\ k \in DOMAIN s3Pending
         /\ ValidFile(s3Pending[k]))
            ~> (k \notin DOMAIN s3Pending)

\* no record of the batch of an iteration failed
NoRecordFailed(e) == \A k \in DOMAIN e.outcomes : e.outcomes[k] = "ok"

\* C35: in CED process_file returns True exactly when no record of the
\* batch failed, the empty batch and the batches whose list of failures got
\* a header from _write_error_file included
C35_TrueIffNoRecordFailed ==
    \A i \in DOMAIN AllIters :
        LET e == AllIters[i]
        IN  /\ (pipeline = "CED" /\ pc \in Returned /\ e = it) => e.returned # "none"
            /\ e.returned # "none" => (e.returned = "True" <=> NoRecordFailed(e))

\* C35 witness: process_file has returned False for a batch of two records
\* of which one failed, its list of failures holding the header and the
\* failed record
C35_Witness ==
    /\ pipeline = "CED"
    /\ pc = "upload_ok"
    /\ it.returned = "False"
    /\ Len(it.outcomes) = 2
    /\ Len(failed_records) = 2
    /\ failed_records[1].row = 0

C37_OnlyOwnObjectLeavesPending ==
    [][s3Pending' # s3Pending =>
          /\ pc \in AtDelete
          /\ it.key = files[fidx].key
          /\ it.key \in DOMAIN s3Pending
          /\ s3Pending' = Without(s3Pending, it.key)]_vars

\* C37 witness: the object of a file was deleted after its artifacts were
\* uploaded, and the object of another file is still pending
C37_Witness ==
    /\ pc \in {"unlink", "x_unlink"}
    /\ it.deleted
    /\ it.uploaded # {}
    /\ it.key \notin DOMAIN s3Pending
    /\ DOMAIN s3Pending # {}

====
